---------------------------- MODULE Spec2Model ----------------------------
(***************************************************************************)
(* CloudGuardian backend: the on-demand scan cycle                         *)
(* (AWSScanner.scan_all_resources over the scan_results table), the five   *)
(* rule checkers it runs, the continuous monitoring scheduler              *)
(* (scheduler.py: configure/start/stop, the persisted monitoring config,   *)
(* the recurring job and its executions, a restart of the process), the    *)
(* severity-weighted compliance score and the IAM access review.           *)
(***************************************************************************)
EXTENDS Integers, Sequences, FiniteSets, Bags, TLC

(***************************************************************************)
(* Bounds of the model.                                                    *)
(***************************************************************************)
\* scan requests accepted in one behaviour
MaxCycles == 2
\* scheduler API calls in one behaviour
MaxCalls == 3
\* times the interval of the job elapses in one behaviour
MaxFires == 2

NULL == "NULL"

(***************************************************************************)
(* Scopes: the (account_id, region) pairs a scan request can name.         *)
(***************************************************************************)
Scopes ==
    { [account_id |-> "111", region |-> "us-east-1"],
      [account_id |-> "111", region |-> "eu-west-1"] }

\* f'account-{self.account_id}'
AccountResource(account_id) == IF account_id = "111" THEN "account-111" ELSE "account-other"

Violation(rid, rtype, vname, sev) ==
    [resource_id |-> rid, resource_type |-> rtype, violation_name |-> vname, severity |-> sev]

(***************************************************************************)
(* The rule checkers.  Each takes what the provider answers (resp.error:   *)
(* the listing call raises) and returns the list of violations it has      *)
(* appended when it returns, as the code computes it.                      *)
(***************************************************************************)
RECURSIVE S3Loop(_, _, _)
S3Loop(buckets, i, violations) ==
    IF i > Len(buckets) THEN violations
    ELSE LET b == buckets[i] IN
         CASE b.encryption = "configured" -> S3Loop(buckets, i + 1, violations)
           [] b.encryption = "no_sse_key" ->
                S3Loop(buckets, i + 1,
                       Append(violations,
                              Violation(b.Name, "S3 Bucket", "Unencrypted S3 Bucket", "HIGH")))
           [] b.encryption = "not_found" ->
                S3Loop(buckets, i + 1,
                       Append(violations,
                              Violation(b.Name, "S3 Bucket", "S3 Encryption Not Configured", "CRITICAL")))
           \* ClientError: logged (unless AccessDenied), the bucket is skipped
           [] b.encryption = "client_error" -> S3Loop(buckets, i + 1, violations)
           \* any other exception leaves the loop through the outer handler
           [] OTHER -> violations

scan_s3_encryption(resp) ==
    IF resp.error THEN <<>> ELSE S3Loop(resp.Buckets, 1, <<>>)

RECURSIVE IAMPolicyLoop(_, _, _, _)
IAMPolicyLoop(username, policies, j, violations) ==
    IF j > Len(policies) THEN violations
    ELSE IF policies[j] \in {"AdministratorAccess", "PowerUserAccess"}
         THEN IAMPolicyLoop(username, policies, j + 1,
                            Append(violations,
                                   Violation(username, "IAM User",
                                             "Overly Permissive IAM Policy", "CRITICAL")))
         ELSE IAMPolicyLoop(username, policies, j + 1, violations)

RECURSIVE IAMUserLoop(_, _, _)
IAMUserLoop(users, i, violations) ==
    IF i > Len(users) THEN violations
    ELSE LET u == users[i] IN
         IF u.client_error
         THEN IAMUserLoop(users, i + 1, violations)
         ELSE IAMUserLoop(users, i + 1,
                          IAMPolicyLoop(u.UserName, u.AttachedPolicies, 1, violations))

\* resp.error: the paginator raises after the users listed in resp.Users
scan_iam_policies(resp) == IAMUserLoop(resp.Users, 1, <<>>)

RECURSIVE SGRangeLoop(_, _, _, _)
SGRangeLoop(sg, ranges, k, violations) ==
    IF k > Len(ranges) THEN violations
    ELSE IF ranges[k] = "0.0.0.0/0"
         THEN SGRangeLoop(sg, ranges, k + 1,
                          Append(violations,
                                 Violation(sg.GroupId, "Security Group",
                                           "Unrestricted Inbound Access", "HIGH")))
         ELSE SGRangeLoop(sg, ranges, k + 1, violations)

RECURSIVE SGRuleLoop(_, _, _)
SGRuleLoop(sg, j, violations) ==
    IF j > Len(sg.IpPermissions) THEN violations
    ELSE SGRuleLoop(sg, j + 1, SGRangeLoop(sg, sg.IpPermissions[j].IpRanges, 1, violations))

RECURSIVE SGLoop(_, _, _)
SGLoop(groups, i, violations) ==
    IF i > Len(groups) THEN violations
    ELSE SGLoop(groups, i + 1, SGRuleLoop(groups[i], 1, violations))

scan_security_groups(resp) ==
    IF resp.error THEN <<>> ELSE SGLoop(resp.SecurityGroups, 1, <<>>)

RECURSIVE TrailLoop(_, _, _)
TrailLoop(trails, i, violations) ==
    IF i > Len(trails) THEN violations
    ELSE CASE trails[i].status = "logging" -> TrailLoop(trails, i + 1, violations)
           [] trails[i].status = "stopped" ->
                TrailLoop(trails, i + 1,
                          Append(violations,
                                 Violation(trails[i].Name, "CloudTrail",
                                           "CloudTrail Not Logging", "HIGH")))
           \* get_trail_status raises: the outer handler ends the loop
           [] OTHER -> violations

scan_cloudtrail_logging(resp, account_id) ==
    IF resp.error THEN <<>>
    ELSE IF resp.trailList = <<>>
         THEN << Violation(AccountResource(account_id), "CloudTrail",
                           "CloudTrail Not Enabled", "CRITICAL") >>
         ELSE TrailLoop(resp.trailList, 1, <<>>)

RECURSIVE RDSLoop(_, _, _)
RDSLoop(dbs, i, violations) ==
    IF i > Len(dbs) THEN violations
    ELSE LET d == dbs[i]
             v1 == IF ~d.StorageEncrypted
                   THEN Append(violations,
                               Violation(d.DBInstanceIdentifier, "RDS Instance",
                                         "Unencrypted RDS Instance", "CRITICAL"))
                   ELSE violations
             v2 == IF d.PubliclyAccessible
                   THEN Append(v1,
                               Violation(d.DBInstanceIdentifier, "RDS Instance",
                                         "Publicly Accessible RDS Instance", "CRITICAL"))
                   ELSE v1
         IN  RDSLoop(dbs, i + 1, v2)

scan_rds_encryption(resp) ==
    IF resp.error THEN <<>> ELSE RDSLoop(resp.DBInstances, 1, <<>>)


(***************************************************************************)
(* What the provider can answer to one scan cycle.  An account holds at    *)
(* most one resource, in one of the five services; the listing calls fail  *)
(* for no service, for one service, or for all of them.                    *)
(***************************************************************************)
Checkers == {"s3", "iam", "sg", "cloudtrail", "rds"}

ErrorPatterns == {{}} \cup {{c} : c \in Checkers} \cup {Checkers}

S3Buckets ==
    { [Name |-> "bucket-1", encryption |-> e] :
        e \in {"configured", "no_sse_key", "not_found", "client_error", "error"} }

AttachedPolicyLists ==
    { <<>>, <<"ReadOnlyAccess">>, <<"AdministratorAccess">>,
      <<"AdministratorAccess", "PowerUserAccess">> }

IAMUsers ==
    { [UserName |-> "user-1", client_error |-> FALSE, AttachedPolicies |-> ps] :
        ps \in AttachedPolicyLists }
    \cup { [UserName |-> "user-1", client_error |-> TRUE, AttachedPolicies |-> <<>>] }

IpPermissionLists ==
    { <<>>,
      << [IpRanges |-> <<"10.0.0.0/8">>] >>,
      << [IpRanges |-> <<"0.0.0.0/0">>] >>,
      << [IpRanges |-> <<"0.0.0.0/0">>], [IpRanges |-> <<"0.0.0.0/0">>] >> }

SecurityGroups == { [GroupId |-> "sg-1", IpPermissions |-> rules] : rules \in IpPermissionLists }

Trails == { [Name |-> "trail-1", status |-> s] : s \in {"logging", "stopped", "error"} }

DBInstances ==
    { [DBInstanceIdentifier |-> "db-1", StorageEncrypted |-> e, PubliclyAccessible |-> a] :
        e \in BOOLEAN, a \in BOOLEAN }

NoResources ==
    [s3 |-> <<>>, iam |-> <<>>, sg |-> <<>>, cloudtrail |-> <<>>, rds |-> <<>>]

Inventories ==
    {NoResources}
    \cup {[NoResources EXCEPT !.s3 = <<b>>] : b \in S3Buckets}
    \cup {[NoResources EXCEPT !.iam = <<u>>] : u \in IAMUsers}
    \cup {[NoResources EXCEPT !.sg = <<g>>] : g \in SecurityGroups}
    \cup {[NoResources EXCEPT !.cloudtrail = <<t>>] : t \in Trails}
    \cup {[NoResources EXCEPT !.rds = <<d>>] : d \in DBInstances}

\* the provider of one cycle: the inventory and the services whose listing raises
Providers == [inventory : Inventories, errors : ErrorPatterns]

\* what checker c returns against the provider's answers
CheckerResult(c, prov, account_id) ==
    LET inv == prov.inventory
        err == c \in prov.errors
    IN  CASE c = "s3" -> scan_s3_encryption([error |-> err, Buckets |-> inv.s3])
          [] c = "iam" -> scan_iam_policies([error |-> err, Users |-> inv.iam])
          [] c = "sg" -> scan_security_groups([error |-> err, SecurityGroups |-> inv.sg])
          [] c = "cloudtrail" ->
                scan_cloudtrail_logging([error |-> err, trailList |-> inv.cloudtrail], account_id)
          [] OTHER -> scan_rds_encryption([error |-> err, DBInstances |-> inv.rds])

\* a checker failed when an exception reached its outer handler
CheckerFailed(c, prov) ==
    \/ c \in prov.errors
    \/ c = "s3" /\ \E i \in 1..Len(prov.inventory.s3) : prov.inventory.s3[i].encryption = "error"
    \/ c = "cloudtrail" /\ \E i \in 1..Len(prov.inventory.cloudtrail) :
                                prov.inventory.cloudtrail[i].status = "error"

\* a faulty variant: the first checker that fails ends the run, the later
\* checkers are not called
RECURSIVE RunUntilFailure(_, _, _)
RunUntilFailure(order, prov, account_id) ==
    IF order = <<>> THEN <<>>
    ELSE IF CheckerFailed(Head(order), prov) THEN <<>>
    ELSE CheckerResult(Head(order), prov, account_id)
            \o RunUntilFailure(Tail(order), prov, account_id)

RunAllScannersAborting(prov, account_id) ==
    RunUntilFailure(<<"s3", "iam", "sg", "cloudtrail", "rds">>, prov, account_id)

\* the five all_violations.extend(self.scan_...()) calls, in their order
RunAllScanners(prov, account_id) ==
    CheckerResult("s3", prov, account_id)
        \o CheckerResult("iam", prov, account_id)
        \o CheckerResult("sg", prov, account_id)
        \o CheckerResult("cloudtrail", prov, account_id)
        \o CheckerResult("rds", prov, account_id)

(***************************************************************************)
(* The store.  scan_results and scan_history hold the committed rows of    *)
(* the two tables.  A ScanResult row has a fresh uuid4 primary key, so     *)
(* rows equal in every other column coexist: the table is a bag of rows.   *)
(***************************************************************************)
VARIABLES
    scan_results,    \* bag of committed ScanResult rows
    scan_history,    \* set of committed ScanHistory rows
    pc,              \* per background task: where scan_all_resources stands
    scanner,         \* per task: the AWSScanner's account_id and region
    old_results,     \* per task: the rows the clearing query returned
    provider,        \* per task: what the provider answered in this cycle
    all_violations,  \* per task: what the five checkers returned
    cycles           \* scan requests accepted so far

scanVars ==
    <<scan_results, scan_history, pc, scanner, old_results, provider, all_violations, cycles>>

VARIABLES
    config_file,  \* monitoring_config.json: absent, garbled, or the JSON of a config
    jobs,         \* the job store of the BackgroundScheduler
    running,      \* bag of the executions of scheduled_scan_job in progress
    last_fire,    \* what the scheduler did with the latest due run of the job
    last_call,    \* the latest scheduler API call and the config it returned
    last_job,     \* how the latest ended execution of scheduled_scan_job went
    calls,        \* scheduler API calls so far
    fires         \* times the interval of the job has elapsed so far

schedVars == <<config_file, jobs, running, last_fire, last_call, last_job, calls, fires>>

VARIABLES
    computed      \* the latest call of a pure function: its arguments and its result

calcVars == <<computed>>

VARIABLES
    api,          \* per caller of the monitoring API: the call it is in, where
                  \* it stands in it, and the config dict it holds
    round         \* the state in which the calls now in progress found the file
                  \* and the job store, and the calls made since, in call order

apiVars == <<api, round>>

vars == <<scanVars, schedVars, calcVars, apiVars>>

Tasks == {"t1", "t2"}

\* ScanResult(...) as scan_all_resources builds it: scan_id and first_detected
\* are not passed (NULL), status takes the column default
ManualRow(violation, sc) ==
    [scan_id |-> NULL,
     resource_id |-> violation.resource_id,
     resource_type |-> violation.resource_type,
     violation_name |-> violation.violation_name,
     severity |-> violation.severity,
     is_compliant |-> FALSE,
     account_id |-> sc.account_id,
     region |-> sc.region,
     first_detected |-> NULL,
     status |-> "NEW"]

RECURSIVE AddAll(_, _, _)
AddAll(bag, violations, sc) ==
    IF violations = <<>> THEN bag
    ELSE AddAll(bag (+) SetToBag({ManualRow(Head(violations), sc)}), Tail(violations), sc)

\* db.query(ScanResult).filter(account_id == ..., region == ...).all()
QueryScope(bag, sc) ==
    LET hit == {r \in BagToSet(bag) : r.account_id = sc.account_id /\ r.region = sc.region}
    IN  [r \in hit |-> bag[r]]

\* GET /api/violations without filters: the rows with is_compliant == False
get_violations == [r \in {x \in BagToSet(scan_results) : ~x.is_compliant} |-> scan_results[r]]

\* POST /api/scan/aws: builds the scanner and queues scan_all_resources
scan_aws(t, sc) ==
    /\ pc[t] = "idle"
    /\ cycles < MaxCycles
    /\ cycles' = cycles + 1
    /\ scanner' = [scanner EXCEPT ![t] = sc]
    /\ pc' = [pc EXCEPT ![t] = "query"]
    /\ UNCHANGED <<scan_results, scan_history, old_results, provider, all_violations>>
    /\ UNCHANGED <<schedVars, calcVars, apiVars>>

\* old_results = db.query(...).all()
ScanQuery(t) ==
    /\ pc[t] = "query"
    /\ old_results' = [old_results EXCEPT ![t] = QueryScope(scan_results, scanner[t])]
    /\ pc' = [pc EXCEPT ![t] = "clear"]
    /\ UNCHANGED <<scan_results, scan_history, scanner, provider, all_violations, cycles>>
    /\ UNCHANGED <<schedVars, calcVars, apiVars>>

\* for result in old_results: db.delete(result); db.commit()
ClearedResults(t) == scan_results (-) old_results[t]

ScanClear(t) ==
    /\ pc[t] = "clear"
    /\ scan_results' = ClearedResults(t)
    /\ pc' = [pc EXCEPT ![t] = "scan"]
    /\ UNCHANGED <<scan_history, scanner, old_results, provider, all_violations, cycles>>
    /\ UNCHANGED <<schedVars, calcVars, apiVars>>

\* the clearing raises: logged, db.rollback(), the cycle goes on
ScanClearFail(t) ==
    /\ pc[t] = "clear"
    /\ pc' = [pc EXCEPT ![t] = "scan"]
    /\ UNCHANGED <<scan_results, scan_history, scanner, old_results, provider,
                   all_violations, cycles>>
    /\ UNCHANGED <<schedVars, calcVars, apiVars>>

\* the five checkers run against what the provider answers
ScanRun(t) ==
    /\ pc[t] = "scan"
    /\ \E prov \in Providers :
          /\ provider' = [provider EXCEPT ![t] = prov]
          /\ all_violations' =
                [all_violations EXCEPT ![t] = RunAllScanners(prov, scanner[t].account_id)]
    /\ pc' = [pc EXCEPT ![t] = "save"]
    /\ UNCHANGED <<scan_results, scan_history, scanner, old_results, cycles>>
    /\ UNCHANGED <<schedVars, calcVars, apiVars>>

\* for violation in all_violations: db.add(ScanResult(...)); db.commit()
SavedResults(t) == AddAll(scan_results, all_violations[t], scanner[t])

ScanSave(t) ==
    /\ pc[t] = "save"
    /\ scan_results' = SavedResults(t)
    /\ pc' = [pc EXCEPT ![t] = "done"]
    /\ UNCHANGED <<scan_history, scanner, old_results, provider, all_violations, cycles>>
    /\ UNCHANGED <<schedVars, calcVars, apiVars>>

\* the final commit raises: nothing is stored, the exception ends the task
ScanSaveFail(t) ==
    /\ pc[t] = "save"
    /\ pc' = [pc EXCEPT ![t] = "idle"]
    /\ scanner' = [scanner EXCEPT ![t] = NULL]
    /\ old_results' = [old_results EXCEPT ![t] = EmptyBag]
    /\ provider' = [provider EXCEPT ![t] = NULL]
    /\ all_violations' = [all_violations EXCEPT ![t] = <<>>]
    /\ UNCHANGED <<scan_results, scan_history, cycles>>
    /\ UNCHANGED <<schedVars, calcVars, apiVars>>

\* logger.info("Scan completed ..."); the task returns
ScanReturn(t) ==
    /\ pc[t] = "done"
    /\ pc' = [pc EXCEPT ![t] = "idle"]
    /\ scanner' = [scanner EXCEPT ![t] = NULL]
    /\ old_results' = [old_results EXCEPT ![t] = EmptyBag]
    /\ provider' = [provider EXCEPT ![t] = NULL]
    /\ all_violations' = [all_violations EXCEPT ![t] = <<>>]
    /\ UNCHANGED <<scan_results, scan_history, cycles>>
    /\ UNCHANGED <<schedVars, calcVars, apiVars>>

(***************************************************************************)
(* The continuous monitoring scheduler (scheduler.py).                     *)
(***************************************************************************)

DEFAULT_CONFIG == [enabled |-> FALSE, interval_hours |-> 24, accounts |-> <<>>]

\* BackgroundScheduler() and add_job() are given no max_instances: one
\* execution of a job at a time
max_instances_two == 1 + 1
max_instances == 1

\* interval_hours arguments; the function and the endpoint accept any int,
\* and an IntervalTrigger of zero hours is built without an error
Intervals == {0, 1}

Target(region) ==
    [account_id |-> "111", region |-> region, access_key |-> NULL, secret_key |-> NULL]

AccountLists ==
    { <<>>, <<Target("us-east-1")>>, <<Target("us-east-1"), Target("eu-west-1")>> }

\* load_config(): the file's content, or a copy of the default when the
\* file is absent or reading it raises
load_config(read_ok) ==
    IF config_file.kind = "json" /\ read_ok THEN config_file.config ELSE DEFAULT_CONFIG

\* save_config(config): the file after the call.  open() may raise (the
\* file stays as it was) and the write may raise after open() truncated it
save_config(config, outcome) ==
    CASE outcome = "ok" -> [kind |-> "json", config |-> config]
      [] outcome = "open_fails" -> config_file
      [] OTHER -> [kind |-> "garbled"]

SaveOutcomes == {"ok", "open_fails", "write_fails"}

Job(interval_hours) == [id |-> "compliance_scan", interval_hours |-> interval_hours]

\* add_job(..., id="compliance_scan", replace_existing=True)
add_job(store, job) == {j \in store : j.id # job.id} \cup {job}

\* the job store after configure_monitoring(enabled, interval_hours, ...)
ConfiguredJobs(enabled, interval_hours) ==
    IF enabled THEN add_job({}, Job(interval_hours)) ELSE {}

\* the accounts argument of configure_monitoring: None, or a list l as {l}
None == {}

\* the config configure_monitoring builds and returns
ConfiguredConfig(loaded, enabled, interval_hours, accounts) ==
    [enabled |-> enabled,
     interval_hours |-> interval_hours,
     accounts |-> IF accounts # None THEN CHOOSE l \in accounts : TRUE ELSE loaded.accounts]

\* no API call made since the module was loaded
NoCall == [op |-> "none", enabled |-> FALSE, returned |-> {}]

\* no execution of scheduled_scan_job has ended yet
NoJob == [outcome |-> "none", accounts |-> <<>>, attempted |-> 0]

\* the threads that call the monitoring API
Callers == {"c1", "c2"}

\* a caller that is in no call
NoApiCall ==
    [pc |-> "idle", op |-> "none", enabled |-> FALSE, interval_hours |-> 0,
     accounts |-> None, config |-> DEFAULT_CONFIG]

\* an empty database, no task queued; no config file, a started scheduler
\* without jobs
Init ==
    /\ scan_results = EmptyBag
    /\ scan_history = {}
    /\ pc = [t \in Tasks |-> "idle"]
    /\ scanner = [t \in Tasks |-> NULL]
    /\ old_results = [t \in Tasks |-> EmptyBag]
    /\ provider = [t \in Tasks |-> NULL]
    /\ all_violations = [t \in Tasks |-> <<>>]
    /\ cycles = 0
    /\ config_file = [kind |-> "absent"]
    /\ jobs = {}
    /\ running = EmptyBag
    /\ last_fire = "none"
    /\ last_call = NoCall
    /\ last_job = NoJob
    /\ calls = 0
    /\ fires = 0
    /\ computed = [op |-> "none"]
    /\ api = [c \in Callers |-> NoApiCall]
    /\ round = [file |-> [kind |-> "absent"], jobs |-> {}, calls |-> <<>>]

configure_monitoring(enabled, interval_hours, accounts) ==
    /\ calls < MaxCalls
    /\ \E read_ok \in BOOLEAN, outcome \in SaveOutcomes :
          LET config == ConfiguredConfig(load_config(read_ok), enabled, interval_hours, accounts)
          IN  /\ config_file' = save_config(config, outcome)
              /\ last_call' = [op |-> "configure", enabled |-> enabled, returned |-> {config}]
    /\ jobs' = ConfiguredJobs(enabled, interval_hours)
    /\ calls' = calls + 1
    /\ UNCHANGED <<running, last_fire, last_job, fires>>
    /\ UNCHANGED <<scanVars, calcVars, apiVars>>

\* a faulty variant: stop_monitoring() leaves the job in the store
StoppedJobsKept == jobs

\* the job store after stop_monitoring()
StoppedJobs == {}

stop_monitoring ==
    /\ calls < MaxCalls
    /\ \E read_ok \in BOOLEAN, outcome \in SaveOutcomes :
          config_file' = save_config([load_config(read_ok) EXCEPT !.enabled = FALSE], outcome)
    /\ jobs' = StoppedJobs
    /\ last_call' = [op |-> "stop", enabled |-> FALSE, returned |-> {}]
    /\ calls' = calls + 1
    /\ UNCHANGED <<running, last_fire, last_job, fires>>
    /\ UNCHANGED <<scanVars, calcVars, apiVars>>

\* start_monitoring(): configure_monitoring(True, ...) with the loaded
\* interval and accounts; configure_monitoring loads the file again
start_monitoring ==
    /\ calls < MaxCalls
    /\ \E read1 \in BOOLEAN, read2 \in BOOLEAN, outcome \in SaveOutcomes :
          LET config == load_config(read1)
              configured == ConfiguredConfig(load_config(read2), TRUE,
                                             config.interval_hours, {config.accounts})
          IN  /\ config_file' = save_config(configured, outcome)
              /\ jobs' = ConfiguredJobs(TRUE, config.interval_hours)
              /\ last_call' = [op |-> "start", enabled |-> TRUE, returned |-> {configured}]
    /\ calls' = calls + 1
    /\ UNCHANGED <<running, last_fire, last_job, fires>>
    /\ UNCHANGED <<scanVars, calcVars, apiVars>>

\* get_monitoring_status()
get_monitoring_status(read_ok) ==
    LET config == load_config(read_ok) IN
    [enabled |-> config.enabled,
     interval_hours |-> config.interval_hours,
     accounts_count |-> Len(config.accounts),
     next_scan |-> IF \E j \in jobs : j.id = "compliance_scan" THEN "next_run_time" ELSE NULL,
     scheduler_running |-> TRUE]

\* the interval of the job elapses and an execution may start
TimerFire ==
    /\ fires < MaxFires
    /\ jobs # {}
    /\ BagCardinality(running) < max_instances
    /\ running' = running (+) SetToBag({[pc |-> "load", accounts |-> <<>>]})
    /\ last_fire' = "submitted"
    /\ fires' = fires + 1
    /\ UNCHANGED <<config_file, jobs, last_call, last_job, calls>>
    /\ UNCHANGED <<scanVars, calcVars, apiVars>>

\* the interval elapses while the executions allowed are all in progress:
\* the run is skipped with a warning
TimerSkip ==
    /\ fires < MaxFires
    /\ jobs # {}
    /\ BagCardinality(running) >= max_instances
    /\ last_fire' = "skipped"
    /\ fires' = fires + 1
    /\ UNCHANGED <<config_file, jobs, running, last_call, last_job, calls>>
    /\ UNCHANGED <<scanVars, calcVars, apiVars>>

\* a faulty variant: only the enabled flag is looked at
SkipsWhenDisabledOnly(config) == ~config.enabled

\* scheduled_scan_job: "if not config.get('enabled')" / "if not accounts"
SkipsScan(config) == ~config.enabled \/ config.accounts = <<>>

\* scheduled_scan_job: monitoring disabled or no accounts, the job returns
JobSkip ==
    \E e \in BagToSet(running), read_ok \in BOOLEAN :
        LET config == load_config(read_ok) IN
        /\ e.pc = "load"
        /\ SkipsScan(config)
        /\ running' = running (-) SetToBag({e})
        /\ last_job' = [outcome |-> "skipped", accounts |-> <<>>, attempted |-> 0]
        /\ UNCHANGED <<config_file, jobs, last_fire, last_call, calls, fires>>
        /\ UNCHANGED <<scanVars, calcVars, apiVars>>

\* scheduled_scan_job: enabled with accounts, the session is opened and the
\* loop over the accounts is entered
JobBegin ==
    \E e \in BagToSet(running), read_ok \in BOOLEAN :
        LET config == load_config(read_ok) IN
        /\ e.pc = "load"
        /\ ~SkipsScan(config)
        /\ running' = (running (-) SetToBag({e}))
                         (+) SetToBag({[pc |-> "scan", accounts |-> config.accounts]})
        /\ UNCHANGED <<config_file, jobs, last_fire, last_call, last_job, calls, fires>>
        /\ UNCHANGED <<scanVars, calcVars, apiVars>>

\* AWSScanner.__init__(self, account_id, region) called with keywords
AWSScannerAccepts(keywords) == keywords \subseteq {"account_id", "region"}

\* scheduled_scan_job, first account: AWSScanner(account_id=, region=,
\* access_key=, secret_key=) raises TypeError; the handler rolls the session
\* back and the job ends with nothing written and the other accounts
\* not looked at
JobFail ==
    \E e \in BagToSet(running) :
        /\ e.pc = "scan"
        /\ e.accounts # <<>>
        /\ ~AWSScannerAccepts({"account_id", "region", "access_key", "secret_key"})
        /\ running' = running (-) SetToBag({e})
        /\ last_job' = [outcome |-> "error", accounts |-> e.accounts, attempted |-> 1]
        /\ UNCHANGED <<config_file, jobs, last_fire, last_call, calls, fires>>
        /\ UNCHANGED <<scanVars, calcVars, apiVars>>

\* the process is restarted: scheduler.py is loaded again, with a new
\* BackgroundScheduler that holds no job; the config file stays as it is,
\* and the executions of the old process are gone
Restart ==
    /\ jobs' = {}
    /\ running' = EmptyBag
    /\ last_fire' = "none"
    /\ last_call' = NoCall
    /\ UNCHANGED <<config_file, last_job, calls, fires>>
    /\ UNCHANGED <<scanVars, calcVars, apiVars>>

SchedStep ==
    \/ \E enabled \in BOOLEAN, interval_hours \in Intervals,
          accounts \in {None} \cup {{l} : l \in AccountLists} :
            configure_monitoring(enabled, interval_hours, accounts)
    \/ stop_monitoring
    \/ start_monitoring
    \/ TimerFire
    \/ TimerSkip
    \/ JobSkip
    \/ JobBegin
    \/ JobFail
    \/ Restart

(***************************************************************************)
(* The monitoring API called from several threads.  scheduler.py takes no  *)
(* lock, so the statements of two calls interleave; a call of the          *)
(* scheduler object (remove_all_jobs, add_job) and a read or a write of    *)
(* the file is one step each.  Reads and writes succeed here: their        *)
(* failures are in the actions above.                                      *)
(***************************************************************************)
\* the arguments the calls are made with here
ApiIntervals == {1, 24}

ApiAccountLists == {<<>>, <<Target("us-east-1")>>}

\* a call begins: it is noted in round, after the state the calls in
\* progress started from
Begun(c, op, enabled, interval_hours, accounts) ==
    LET call == [caller |-> c, op |-> op, enabled |-> enabled,
                 interval_hours |-> interval_hours, accounts |-> accounts]
    IN  IF \A d \in Callers : api[d].pc = "idle"
        THEN [file |-> config_file, jobs |-> jobs, calls |-> <<call>>]
        ELSE [round EXCEPT !.calls = Append(@, call)]

\* configure_monitoring(enabled, interval_hours, accounts) is called and
\* loads the config, then sets the three keys of its dict
ConfigureCall(c, enabled, interval_hours, accounts) ==
    /\ calls < MaxCalls
    /\ api[c].pc = "idle"
    /\ api' = [api EXCEPT ![c] =
                 [pc |-> "remove", op |-> "configure", enabled |-> enabled,
                  interval_hours |-> interval_hours, accounts |-> accounts,
                  config |-> ConfiguredConfig(load_config(TRUE), enabled,
                                              interval_hours, accounts)]]
    /\ round' = Begun(c, "configure", enabled, interval_hours, accounts)
    /\ calls' = calls + 1
    /\ UNCHANGED <<config_file, jobs, running, last_fire, last_call, last_job, fires>>
    /\ UNCHANGED <<scanVars, calcVars>>

\* start_monitoring() is called and loads the config for the arguments of
\* its configure_monitoring call
StartCall(c) ==
    /\ calls < MaxCalls
    /\ api[c].pc = "idle"
    /\ LET config == load_config(TRUE) IN
       api' = [api EXCEPT ![c] =
                 [pc |-> "configure", op |-> "start", enabled |-> TRUE,
                  interval_hours |-> config.interval_hours,
                  accounts |-> {config.accounts}, config |-> config]]
    /\ round' = Begun(c, "start", TRUE, 0, None)
    /\ calls' = calls + 1
    /\ UNCHANGED <<config_file, jobs, running, last_fire, last_call, last_job, fires>>
    /\ UNCHANGED <<scanVars, calcVars>>

\* the configure_monitoring call inside start_monitoring loads the config
\* again and sets the three keys
StartConfigure(c) ==
    /\ api[c].pc = "configure"
    /\ api' = [api EXCEPT ![c].pc = "remove",
                          ![c].config = ConfiguredConfig(load_config(TRUE), api[c].enabled,
                                                         api[c].interval_hours,
                                                         api[c].accounts)]
    /\ UNCHANGED <<schedVars, round>>
    /\ UNCHANGED <<scanVars, calcVars>>

\* configure_monitoring: scheduler.remove_all_jobs()
ConfigureRemoveJobs(c) ==
    /\ api[c].pc = "remove"
    /\ jobs' = {}
    /\ api' = [api EXCEPT ![c].pc = "add"]
    /\ UNCHANGED <<config_file, running, last_fire, last_call, last_job, calls, fires, round>>
    /\ UNCHANGED <<scanVars, calcVars>>

\* configure_monitoring: "if enabled:" scheduler.add_job(...)
ConfigureAddJob(c) ==
    /\ api[c].pc = "add"
    /\ jobs' = IF api[c].enabled THEN add_job(jobs, Job(api[c].interval_hours)) ELSE jobs
    /\ api' = [api EXCEPT ![c].pc = "save"]
    /\ UNCHANGED <<config_file, running, last_fire, last_call, last_job, calls, fires, round>>
    /\ UNCHANGED <<scanVars, calcVars>>

\* configure_monitoring: save_config(config), and the call returns
ConfigureSave(c) ==
    /\ api[c].pc = "save"
    /\ config_file' = save_config(api[c].config, "ok")
    /\ api' = [api EXCEPT ![c] = NoApiCall]
    /\ UNCHANGED <<jobs, running, last_fire, last_call, last_job, calls, fires, round>>
    /\ UNCHANGED <<scanVars, calcVars>>

\* stop_monitoring() is called, loads the config and sets enabled = False
StopCall(c) ==
    /\ calls < MaxCalls
    /\ api[c].pc = "idle"
    /\ api' = [api EXCEPT ![c] =
                 [pc |-> "stop_save", op |-> "stop", enabled |-> FALSE,
                  interval_hours |-> 0, accounts |-> None,
                  config |-> [load_config(TRUE) EXCEPT !.enabled = FALSE]]]
    /\ round' = Begun(c, "stop", FALSE, 0, None)
    /\ calls' = calls + 1
    /\ UNCHANGED <<config_file, jobs, running, last_fire, last_call, last_job, fires>>
    /\ UNCHANGED <<scanVars, calcVars>>

\* stop_monitoring: save_config(config)
StopSave(c) ==
    /\ api[c].pc = "stop_save"
    /\ config_file' = save_config(api[c].config, "ok")
    /\ api' = [api EXCEPT ![c].pc = "stop_remove"]
    /\ UNCHANGED <<jobs, running, last_fire, last_call, last_job, calls, fires, round>>
    /\ UNCHANGED <<scanVars, calcVars>>

\* stop_monitoring: scheduler.remove_all_jobs(), and the call returns
StopRemoveJobs(c) ==
    /\ api[c].pc = "stop_remove"
    /\ jobs' = {}
    /\ api' = [api EXCEPT ![c] = NoApiCall]
    /\ UNCHANGED <<config_file, running, last_fire, last_call, last_job, calls, fires, round>>
    /\ UNCHANGED <<scanVars, calcVars>>

ApiStep ==
    \E c \in Callers :
        \/ \E enabled \in BOOLEAN, interval_hours \in ApiIntervals,
              accounts \in {None} \cup {{l} : l \in ApiAccountLists} :
                ConfigureCall(c, enabled, interval_hours, accounts)
        \/ StartCall(c)
        \/ StartConfigure(c)
        \/ ConfigureRemoveJobs(c)
        \/ ConfigureAddJob(c)
        \/ ConfigureSave(c)
        \/ StopCall(c)
        \/ StopSave(c)
        \/ StopRemoveJobs(c)

(***************************************************************************)
(* The compliance score (utils/compliance_framework.py).  A float with two *)
(* decimals is held as the integer number of its hundredths: 100.0 is      *)
(* 10000, 56.67 is 5667.                                                   *)
(***************************************************************************)
\* violations given to one call of get_compliance_score
MaxViolations == 4

\* the longest list of names that precedes the padding of an attached list
MaxAttached == 3

SEVERITY_LEVELS_CriticalIsLight == [CRITICAL |-> 1, HIGH |-> 7, MEDIUM |-> 4, LOW |-> 2]

SEVERITY_LEVELS_LowIsFree == [CRITICAL |-> 10, HIGH |-> 7, MEDIUM |-> 4, LOW |-> 0]

\* SEVERITY_LEVELS[...]['score']
SEVERITY_LEVELS == [CRITICAL |-> 10, HIGH |-> 7, MEDIUM |-> 4, LOW |-> 2]

\* v.get('severity', 'LOW')
SeverityOf(v) == IF "severity" \in DOMAIN v THEN v.severity ELSE "LOW"

RECURSIVE total_severity(_)
total_severity(violations) ==
    IF violations = <<>> THEN 0
    ELSE SEVERITY_LEVELS[SeverityOf(Head(violations))] + total_severity(Tail(violations))

\* the two decimals cut off, not rounded
Floor2(num, den) == (100 * num) \div den

\* round(num / den, 2) for num >= 0, den > 0, in hundredths; a tie goes to
\* the even neighbour
Round2(num, den) ==
    LET q == (100 * num) \div den
        r == (100 * num) % den
    IN  IF 2 * r < den THEN q
        ELSE IF 2 * r > den THEN q + 1
        ELSE IF q % 2 = 0 THEN q ELSE q + 1

get_compliance_score(violations) ==
    IF violations = <<>> THEN 10000
    ELSE LET max_possible == Len(violations) * 10
             \* 100 - (total_severity / max_possible * 100), as a fraction of max_possible
             num == 100 * max_possible - 100 * total_severity(violations)
         IN  Round2(IF num < 0 THEN 0 ELSE num, max_possible)

\* the dicts of a violations list: with a severity, or without the key
ScoredViolations ==
    {[severity |-> s] : s \in {"CRITICAL", "HIGH", "MEDIUM", "LOW"}}
        \cup {[violation_name |-> "Unencrypted S3 Bucket"]}

ViolationLists == UNION {[1..n -> ScoredViolations] : n \in 0..MaxViolations}

ComputeScore ==
    /\ computed.op = "none"
    /\ \E violations \in ViolationLists :
          computed' = [op |-> "get_compliance_score",
                       violations |-> violations,
                       result |-> get_compliance_score(violations)]
    /\ UNCHANGED <<scanVars, schedVars, apiVars>>

(***************************************************************************)
(* The IAM access review (scanners/iam_scanner.py).                        *)
(***************************************************************************)
RISKY_POLICIES_NoAdmin ==
    {"PowerUserAccess", "IAMFullAccess", "SecurityAudit", "*FullAccess"}

RISKY_POLICIES ==
    {"AdministratorAccess", "PowerUserAccess", "IAMFullAccess", "SecurityAudit", "*FullAccess"}

\* the managed policy names of the model
PolicyNames ==
    {"AdministratorAccess", "IAMFullAccess", "PowerUserAccess", "SecurityAudit",
     "AmazonS3FullAccess", "ReadOnlyAccess"}

\* 'FullAccess' in policy, over the names of the model
ContainsFullAccess(policy) == policy \in {"IAMFullAccess", "AmazonS3FullAccess", "*FullAccess"}

\* f"Has {policy} policy"
HasPolicy(policy) == "Has " \o policy \o " policy"

\* f"Has {total} policies (excessive)"
HasExcessiveAsInline(total) == "Has " \o ToString(total) \o " inline policies"

HasExcessive(total) == "Has " \o ToString(total) \o " policies (excessive)"

\* f"Has {len(inline_policies)} inline policies"
HasInline(n) == "Has " \o ToString(n) \o " inline policies"

\* one reason for the whole list, however many of its policies are risky
RiskyPolicyOnce(attached_policies, i, risk_reasons) ==
    LET risky == {j \in i..Len(attached_policies) :
                    \/ attached_policies[j] \in RISKY_POLICIES
                    \/ ContainsFullAccess(attached_policies[j])}
    IN  IF risky = {} THEN risk_reasons
        ELSE Append(risk_reasons, HasPolicy(attached_policies[CHOOSE j \in risky : TRUE]))

RECURSIVE RiskyPolicyLoop(_, _, _)
RiskyPolicyLoop(attached_policies, i, risk_reasons) ==
    IF i > Len(attached_policies) THEN risk_reasons
    ELSE LET policy == attached_policies[i] IN
         IF policy \in RISKY_POLICIES \/ ContainsFullAccess(policy)
         THEN RiskyPolicyLoop(attached_policies, i + 1, Append(risk_reasons, HasPolicy(policy)))
         ELSE RiskyPolicyLoop(attached_policies, i + 1, risk_reasons)

\* the level by the number of reasons alone
RiskLevelByCount(attached_policies, risk_reasons) ==
    IF Len(risk_reasons) >= 3 THEN "HIGH"
    ELSE IF Len(risk_reasons) > 0 THEN "MEDIUM"
    ELSE "LOW"

\* the if / elif chain that determines risk_level
RiskLevel(attached_policies, risk_reasons) ==
    LET InAttached(p) == \E i \in 1..Len(attached_policies) : attached_policies[i] = p
    IN  IF InAttached("AdministratorAccess") \/ InAttached("IAMFullAccess") THEN "CRITICAL"
        ELSE IF Len(risk_reasons) >= 3 THEN "HIGH"
        ELSE IF Len(risk_reasons) > 0 THEN "MEDIUM"
        ELSE "LOW"

analyze_risk(attached_policies, inline_policies) ==
    LET r1 == RiskyPolicyLoop(attached_policies, 1, <<>>)
        total == Len(attached_policies) + Len(inline_policies)
        r2 == IF total > 10 THEN Append(r1, HasExcessive(total)) ELSE r1
        risk_reasons ==
            IF Len(inline_policies) > 0 THEN Append(r2, HasInline(Len(inline_policies))) ELSE r2
    IN  [risk_level |-> RiskLevel(attached_policies, risk_reasons),
         risk_reasons |-> risk_reasons]

\* resp.error: list_attached_user_policies / list_attached_role_policies raises
get_attached_policies(resp) == IF resp.error THEN <<>> ELSE resp.AttachedPolicies

\* resp.error: list_user_policies / list_role_policies raises
get_inline_policies(resp) == IF resp.error THEN <<>> ELSE resp.PolicyNames

\* role_name.startswith('AWS'), over the names of the model
StartsWithAWS(name) == name \in {"AWSServiceRoleForSupport"}

\* the dict scan_users / scan_roles appends for one entity (arn, created_date
\* and last_activity, copied from the provider's answers, are left out)
EntityResult(type, entity) ==
    LET attached_policies == get_attached_policies(entity.attached)
        inline_policies == get_inline_policies(entity.inline)
        risk == analyze_risk(attached_policies, inline_policies)
    IN  [type |-> type,
         name |-> entity.name,
         attached_policies |-> attached_policies,
         inline_policies |-> inline_policies,
         risk_level |-> risk.risk_level,
         risk_reasons |-> risk.risk_reasons,
         total_policies |-> Len(attached_policies) + Len(inline_policies)]

RECURSIVE UserLoop(_, _, _)
UserLoop(users, i, results) ==
    IF i > Len(users) THEN results
    ELSE UserLoop(users, i + 1, Append(results, EntityResult("user", users[i])))

\* resp.error: the list_users paginator raises; the exception is logged and
\* raised again
scan_users(resp) ==
    IF resp.error THEN [raised |-> TRUE, results |-> <<>>]
    ELSE [raised |-> FALSE, results |-> UserLoop(resp.Users, 1, <<>>)]

RECURSIVE RoleLoop(_, _, _)
RoleLoop(roles, i, results) ==
    IF i > Len(roles) THEN results
    ELSE IF StartsWithAWS(roles[i].name) THEN RoleLoop(roles, i + 1, results)
    ELSE RoleLoop(roles, i + 1, Append(results, EntityResult("role", roles[i])))

scan_roles(resp) ==
    IF resp.error THEN [raised |-> TRUE, results |-> <<>>]
    ELSE [raised |-> FALSE, results |-> RoleLoop(resp.Roles, 1, <<>>)]

\* what the provider answers about one entity's policies
AttachedAnswers ==
    {[error |-> TRUE, AttachedPolicies |-> <<>>]}
        \cup {[error |-> FALSE, AttachedPolicies |-> ps] :
                ps \in UNION {[1..n -> PolicyNames] : n \in 0..2}}

InlineAnswers ==
    {[error |-> TRUE, PolicyNames |-> <<>>]}
        \cup {[error |-> FALSE, PolicyNames |-> ps] : ps \in {<<>>, <<"inline-1">>}}

Entities(names) == [name : names, attached : AttachedAnswers, inline : InlineAnswers]

\* the listing returns at most one entity, or raises
EntityPages(names) == {<<>>} \cup {<<e>> : e \in Entities(names)}

ScanUsers ==
    /\ computed.op = "none"
    /\ \E error \in BOOLEAN, users \in EntityPages({"user-1"}) :
          LET resp == [error |-> error, Users |-> users] IN
          computed' = [op |-> "scan_users", entities |-> users,
                       raised |-> scan_users(resp).raised,
                       results |-> scan_users(resp).results]
    /\ UNCHANGED <<scanVars, schedVars, apiVars>>

ScanRoles ==
    /\ computed.op = "none"
    /\ \E error \in BOOLEAN, roles \in EntityPages({"role-1", "AWSServiceRoleForSupport"}) :
          LET resp == [error |-> error, Roles |-> roles] IN
          computed' = [op |-> "scan_roles", entities |-> roles,
                       raised |-> scan_roles(resp).raised,
                       results |-> scan_roles(resp).results]
    /\ UNCHANGED <<scanVars, schedVars, apiVars>>

\* the attached-policy lists analyze_risk is called with: up to MaxAttached
\* names of the model, followed by no, 8 or 11 further harmless policies
\* (so that the total passes 10 with and without risky names)
Padding(k) == [i \in 1..k |-> "ReadOnlyAccess"]

AttachedPolicyNameLists ==
    {prefix \o Padding(k) :
        prefix \in UNION {[1..n -> PolicyNames] : n \in 0..MaxAttached}, k \in {0, 8, 11}}

InlinePolicyNameLists == {<<>>, <<"inline-1">>, <<"inline-1", "inline-2">>}

AnalyzeRisk ==
    /\ computed.op = "none"
    /\ \E attached_policies \in AttachedPolicyNameLists,
          inline_policies \in InlinePolicyNameLists :
          LET risk == analyze_risk(attached_policies, inline_policies) IN
          computed' = [op |-> "analyze_risk",
                       attached_policies |-> attached_policies,
                       inline_policies |-> inline_policies,
                       risk_level |-> risk.risk_level,
                       risk_reasons |-> risk.risk_reasons]
    /\ UNCHANGED <<scanVars, schedVars, apiVars>>

\* the pure functions, called on their own: one call in a behaviour
CalcNext ==
    \/ ComputeScore
    \/ ScanUsers
    \/ ScanRoles
    \/ AnalyzeRisk

SpecCalc == Init /\ [][CalcNext]_vars

\* one scan task, cycles following one another; the database may fail
SeqNext ==
    \/ \E sc \in Scopes : scan_aws("t1", sc)
    \/ ScanQuery("t1")
    \/ ScanClear("t1")
    \/ ScanClearFail("t1")
    \/ ScanRun("t1")
    \/ ScanSave("t1")
    \/ ScanSaveFail("t1")
    \/ ScanReturn("t1")

SpecSeq == Init /\ [][SeqNext]_vars

\* two scan tasks side by side; the database never fails
ConcNext ==
    \E t \in Tasks :
        \/ \E sc \in Scopes : scan_aws(t, sc)
        \/ ScanQuery(t)
        \/ ScanClear(t)
        \/ ScanRun(t)
        \/ ScanSave(t)
        \/ ScanReturn(t)

SpecConc == Init /\ [][ConcNext]_vars

\* the scheduler alone: API calls one after another, the timer, the job
SpecSched == Init /\ [][SchedStep]_vars

\* the monitoring API alone, called from two threads
SpecApi == Init /\ [][ApiStep]_vars

\* everything together
Next ==
    \/ \E t \in Tasks :
          \/ \E sc \in Scopes : scan_aws(t, sc)
          \/ ScanQuery(t)
          \/ ScanClear(t)
          \/ ScanClearFail(t)
          \/ ScanRun(t)
          \/ ScanSave(t)
          \/ ScanSaveFail(t)
          \/ ScanReturn(t)
    \/ SchedStep
    \/ ApiStep
    \/ CalcNext

Spec == Init /\ [][Next]_vars

(***************************************************************************)
(* Vocabulary of the properties.                                           *)
(***************************************************************************)
\* the identity of a violation row
Ident(r) == <<r.resource_id, r.violation_name>>

\* what a reader of the violation store sees for a scope
StoredIn(sc) == QueryScope(get_violations, sc)

\* the identities the checkers reported in the cycle of task t
Reported(t) == {Ident(all_violations[t][i]) : i \in 1..Len(all_violations[t])}

\* the rows of a list of violations in the scope of task t
RowsOf(violations, t) == AddAll(EmptyBag, violations, scanner[t])

\* the new active set of the cycle of task t
NewRows(t) == RowsOf(all_violations[t], t)

\* the checkers that failed in the cycle of task t
FailedCheckers(t) == {c \in Checkers : CheckerFailed(c, provider[t])}

RECURSIVE ReturnedBy(_, _, _)
\* what the checkers of a list returned in the cycle of task t, one after another
ReturnedBy(order, t, skip) ==
    IF order = <<>> THEN <<>>
    ELSE (IF Head(order) \in skip THEN <<>>
          ELSE CheckerResult(Head(order), provider[t], scanner[t].account_id))
            \o ReturnedBy(Tail(order), t, skip)

CheckerOrder == <<"s3", "iam", "sg", "cloudtrail", "rds">>

\* every provider call of a cycle raised: no listing returned anything
EveryCallFailed(prov) == prov.errors = Checkers /\ prov.inventory = NoResources

\* task t commits the rows of its cycle in this step
SaveStep(t) == pc[t] = "save" /\ pc'[t] = "done"

\* the interval of the job elapses in this step
TimerEvent == fires' = fires + 1

(***************************************************************************)
(* C1: a violation identity stored for the scope when a cycle starts (left *)
(* by the cycle before it) and not reported by the checkers in this cycle  *)
(* is absent from the scope's stored set once the cycle has completed.     *)
(***************************************************************************)
C1_ResolvedViolationLeavesActiveSet ==
    \A t \in Tasks :
        pc[t] = "done" =>
            \A r \in BagToSet(old_results[t]) :
                Ident(r) \notin Reported(t) =>
                    \A x \in BagToSet(StoredIn(scanner[t])) : Ident(x) # Ident(r)

(***************************************************************************)
(* C2: a cycle whose checkers return the violations the cycle before it    *)
(* stored leaves every stored violation with status EXISTING and with the  *)
(* first_detected of its row of the first run.                             *)
(***************************************************************************)
C2_RescanKeepsFirstDetectedMarksExisting ==
    \A t \in Tasks :
        (pc[t] = "done" /\ old_results[t] # EmptyBag /\ old_results[t] = NewRows(t)) =>
            \A x \in BagToSet(StoredIn(scanner[t])) :
                /\ x.status = "EXISTING"
                /\ \E r \in BagToSet(old_results[t]) :
                      Ident(r) = Ident(x) /\ r.first_detected = x.first_detected

(***************************************************************************)
(* C3: between the two commits of a cycle a reader sees, for the cycle's   *)
(* scope, the complete old set or the complete new set; it sees no         *)
(* violations only if one of the two is empty.                             *)
(***************************************************************************)
C3_ReaderSeesOldOrNewSet ==
    \A t \in Tasks :
        pc[t] = "save" =>
            /\ StoredIn(scanner[t]) \in {old_results[t], NewRows(t)}
            /\ (old_results[t] # EmptyBag /\ NewRows(t) # EmptyBag)
                  => StoredIn(scanner[t]) # EmptyBag

(***************************************************************************)
(* C4: a cycle in which every provider call failed leaves the scope's      *)
(* stored violations as they were when it started and writes no            *)
(* ScanHistory row.                                                        *)
(***************************************************************************)
C4_FailedFetchLeavesStoreUntouched ==
    \A t \in Tasks :
        (pc[t] = "done" /\ EveryCallFailed(provider[t])) =>
            /\ StoredIn(scanner[t]) = old_results[t]
            /\ scan_history = {}

(***************************************************************************)
(* C5: after two cycles on the same scope have both finished, the scope's  *)
(* stored set is the result of one of them, never a mix of both.           *)
(***************************************************************************)
C5_ConcurrentCyclesDoNotMix ==
    \A t \in Tasks, u \in Tasks :
        (t # u /\ pc[t] = "done" /\ pc[u] = "done" /\ scanner[t] = scanner[u]) =>
            StoredIn(scanner[t]) \in {NewRows(t), NewRows(u)}

(***************************************************************************)
(* C6: within one (account_id, region) scope no two stored violations      *)
(* share the same (resource_id, violation_name) pair.                      *)
(***************************************************************************)
C6_IdentityUniquePerScope ==
    \A r \in BagToSet(scan_results) :
        /\ scan_results[r] = 1
        /\ \A x \in BagToSet(scan_results) :
              (x.account_id = r.account_id /\ x.region = r.region /\ Ident(x) = Ident(r))
                  => x = r

(***************************************************************************)
(* C7: a completed cycle has appended one ScanHistory row for itself, with *)
(* a scan_id no other ScanHistory row has, and every violation row it      *)
(* stored carries that scan_id.                                            *)
(***************************************************************************)
C7_CycleWritesOneHistoryRow ==
    \A t \in Tasks :
        pc[t] = "done" =>
            \E h \in scan_history :
                /\ h.account_id = scanner[t].account_id /\ h.region = scanner[t].region
                /\ \A g \in scan_history : g.scan_id = h.scan_id => g = h
                /\ \A x \in BagToSet(NewRows(t)) : x.scan_id = h.scan_id

C9_OneTimerIffEnabled ==
    /\ Cardinality(jobs) <= 1
    /\ last_call.op # "none" =>
          /\ last_call.enabled => Cardinality(jobs) = 1
          /\ ~last_call.enabled => jobs = {}
          /\ (last_call.op = "configure" /\ ~last_call.enabled)
                => ~get_monitoring_status(TRUE).enabled

(***************************************************************************)
(* C10: at most one execution of scheduled_scan_job is in progress at any  *)
(* time, and when the interval elapses while one is in progress the run is *)
(* skipped: no execution is added.                                         *)
(***************************************************************************)
C10_SingleFlight ==
    /\ [](BagCardinality(running) <= 1)
    /\ [][(TimerEvent /\ running # EmptyBag)
             => (running' = running /\ last_fire' = "skipped")]_vars

\* the interval elapsed while an execution was in progress, and that
\* execution is still the only one
C10_Witness == last_fire = "skipped" /\ BagCardinality(running) = 1

(***************************************************************************)
(* Vocabulary of the scheduler properties.                                 *)
(***************************************************************************)
\* the config a successful read of the given file yields
Persisted(file) == IF file.kind = "json" THEN file.config ELSE DEFAULT_CONFIG

\* execution e of scheduled_scan_job leaves its first position in this step
LeavesLoad(e) ==
    /\ e.pc = "load"
    /\ CopiesIn(e, running') < CopiesIn(e, running)
    /\ last_call' = last_call

(***************************************************************************)
(* C11: when an execution of scheduled_scan_job takes its step while the   *)
(* persisted config is disabled or has no accounts, it ends at once as a   *)
(* skip: no scan is entered, no error is recorded, and scan_results,       *)
(* scan_history and the config file are unchanged.                         *)
(***************************************************************************)
C11_DisabledFiringIsNoOp ==
    [][\A e \in BagToSet(running) :
          (/\ LeavesLoad(e)
           /\ ~Persisted(config_file).enabled \/ Persisted(config_file).accounts = <<>>) =>
              /\ running' = running (-) SetToBag({e})
              /\ last_job'.outcome = "skipped"
              /\ UNCHANGED <<scan_results, scan_history, config_file>>]_vars

\* a firing submitted before stop_monitoring() ran has ended as a skip, the
\* persisted config being disabled
C11_Witness ==
    /\ last_job.outcome = "skipped"
    /\ last_call.op = "stop"
    /\ ~Persisted(config_file).enabled
    /\ running = EmptyBag

\* execution e of scheduled_scan_job, which had entered the loop over the
\* accounts, ends in this step
EndsFiring(e) ==
    /\ e.pc = "scan"
    /\ CopiesIn(e, running') < CopiesIn(e, running)
    /\ last_call' = last_call

(***************************************************************************)
(* C12: a firing in which the scan of a target failed has nevertheless     *)
(* gone on to every later target of its list: when it has ended, each of   *)
(* its targets has been attempted.                                         *)
(***************************************************************************)
C12_LaterTargetsStillScanned ==
    last_job.outcome = "error" => last_job.attempted = Len(last_job.accounts)

(***************************************************************************)
(* C13: a firing that runs with monitoring enabled and n >= 1 accounts     *)
(* has, when it ends, added exactly n ScanHistory rows, each with          *)
(* triggered_by = "scheduled" and a scan_id no other row has.              *)
(***************************************************************************)
C13_FiringWritesOneHistoryRowPerTarget ==
    [][\A e \in BagToSet(running) :
          EndsFiring(e) =>
              LET new == scan_history' \ scan_history IN
              /\ Cardinality(new) = Len(e.accounts)
              /\ \A h \in new :
                    /\ h.triggered_by = "scheduled"
                    /\ \A g \in scan_history' : g.scan_id = h.scan_id => g = h]_vars

(***************************************************************************)
(* C14: stop_monitoring() leaves the persisted interval_hours and accounts *)
(* as they were, and start_monitoring() after it leaves them as they were  *)
(* too and creates the job with that persisted interval.                   *)
(***************************************************************************)
C14_StopStartKeepIntervalAndTargets ==
    [][LET before == Persisted(config_file)
           after == Persisted(config_file')
       IN  /\ stop_monitoring =>
                 /\ after.interval_hours = before.interval_hours
                 /\ after.accounts = before.accounts
           /\ start_monitoring =>
                 /\ after.interval_hours = before.interval_hours
                 /\ after.accounts = before.accounts
                 /\ jobs' = {Job(before.interval_hours)}]_vars

(***************************************************************************)
(* C15: a configure_monitoring call with interval_hours <= 0 returns no    *)
(* config (it is rejected) and leaves the config file and the job store    *)
(* as they were.                                                           *)
(***************************************************************************)
C15_NonPositiveIntervalRejected ==
    [][\A enabled \in BOOLEAN, interval_hours \in Intervals,
          accounts \in {None} \cup {{l} : l \in AccountLists} :
            (interval_hours <= 0 /\ configure_monitoring(enabled, interval_hours, accounts)) =>
                /\ last_call'.returned = {}
                /\ config_file' = config_file
                /\ jobs' = jobs]_vars

(***************************************************************************)
(* C16: after a configure_monitoring (or start_monitoring) call returned   *)
(* a config, loading the config file yields that config, and the job       *)
(* store holds a job exactly when the stored config is enabled.            *)
(***************************************************************************)
C16_ReturnedConfigIsPersisted ==
    last_call.op \in {"configure", "start"} =>
        /\ \A config \in last_call.returned : Persisted(config_file) = config
        /\ (jobs # {}) <=> Persisted(config_file).enabled

(***************************************************************************)
(* C17: monitoring survives a restart: in the states where no API call     *)
(* has been made since scheduler.py was loaded, whatever config the file   *)
(* holds, get_monitoring_status() reports enabled exactly when the         *)
(* recurring job exists (next_scan is not null).                           *)
(***************************************************************************)
C17_StatusMatchesTimerAfterLoad ==
    last_call.op = "none" =>
        (get_monitoring_status(TRUE).enabled <=> get_monitoring_status(TRUE).next_scan # NULL)

(***************************************************************************)
(* C18: while the latest API call is a stop_monitoring() or a              *)
(* configure_monitoring(False, ...) that has returned, the interval of the *)
(* job never elapses and no execution of scheduled_scan_job is added; and  *)
(* the disabling call itself leaves the executions in progress as they     *)
(* are.                                                                    *)
(***************************************************************************)
C18_StopPreventsNewFirings ==
    [][/\ (last_call.op \in {"stop", "configure"} /\ ~last_call.enabled /\ last_call' = last_call)
            => (fires' = fires /\ BagCardinality(running') <= BagCardinality(running))
       /\ (calls' = calls + 1 /\ ~last_call'.enabled) => running' = running]_vars

\* stop_monitoring() has returned while an execution submitted before it is
\* still in progress
C18_Witness ==
    /\ last_call.op = "stop"
    /\ jobs = {}
    /\ running # EmptyBag

(***************************************************************************)
(* C19: an entity whose attached-policy or inline-policy listing failed is *)
(* not reported by scan_users / scan_roles with risk_level LOW and no      *)
(* risk_reasons.                                                           *)
(***************************************************************************)
C19_FailedListingNotReportedClean ==
    computed.op \in {"scan_users", "scan_roles"} =>
        \A i \in 1..Len(computed.entities), k \in 1..Len(computed.results) :
            (/\ computed.results[k].name = computed.entities[i].name
             /\ computed.entities[i].attached.error \/ computed.entities[i].inline.error)
                => ~(/\ computed.results[k].risk_level = "LOW"
                     /\ computed.results[k].risk_reasons = <<>>)

(***************************************************************************)
(* C20: get_compliance_score(V) is 100.0 if and only if V is empty.        *)
(***************************************************************************)
C20_ScoreIs100IffEmpty ==
    computed.op = "get_compliance_score" =>
        (computed.result = 10000 <=> computed.violations = <<>>)

\* a list of LOW violations only, the mildest non-empty input, scores 80.0
C20_Witness ==
    /\ computed.op = "get_compliance_score"
    /\ Len(computed.violations) = MaxViolations
    /\ \A i \in 1..Len(computed.violations) : computed.violations[i] = [severity |-> "LOW"]
    /\ computed.result = 8000


(***************************************************************************)
(* Vocabulary of the score and risk properties.                            *)
(***************************************************************************)
IsLow(v) == "severity" \in DOMAIN v /\ v.severity = "LOW"

\* the weights as the specification lists them; a dict with no severity weighs as LOW
StatedWeight(v) ==
    IF "severity" \notin DOMAIN v THEN 2
    ELSE CASE v.severity = "CRITICAL" -> 10
           [] v.severity = "HIGH" -> 7
           [] v.severity = "MEDIUM" -> 4
           [] v.severity = "LOW" -> 2

RECURSIVE StatedWeightSum(_)
StatedWeightSum(V) == IF V = <<>> THEN 0 ELSE StatedWeight(Head(V)) + StatedWeightSum(Tail(V))

Abs(x) == IF x < 0 THEN 0 - x ELSE x

Risky(policy) == policy \in RISKY_POLICIES \/ ContainsFullAccess(policy)

Analyzed == computed.op = "analyze_risk"

TotalPolicies == Len(computed.attached_policies) + Len(computed.inline_policies)

(***************************************************************************)
(* C21: for a non-empty list V and a position of V that holds a LOW        *)
(* violation, the score of V with that severity replaced by CRITICAL is    *)
(* at most the score of V.                                                 *)
(***************************************************************************)
C21_LowToCriticalNeverRaisesScore ==
    computed.op = "get_compliance_score" =>
        \A i \in 1..Len(computed.violations) :
            IsLow(computed.violations[i]) =>
                get_compliance_score(
                    [computed.violations EXCEPT ![i] = [@ EXCEPT !.severity = "CRITICAL"]])
                  <= computed.result

\* a list of several violations, one of them LOW, whose score the
\* replacement lowers
C21_Witness ==
    /\ computed.op = "get_compliance_score"
    /\ Len(computed.violations) >= 2
    /\ \E i \in 1..Len(computed.violations) :
          /\ IsLow(computed.violations[i])
          /\ get_compliance_score(
                 [computed.violations EXCEPT ![i] = [@ EXCEPT !.severity = "CRITICAL"]])
               < computed.result

(***************************************************************************)
(* C22: for a non-empty list V of n violations the score is                *)
(* 100 - (sum of the weights CRITICAL 10, HIGH 7, MEDIUM 4, LOW 2) * 100 / *)
(* (n * 10), floored at 0 and rounded to two decimals: it is the number of *)
(* hundredths nearest to that value, it lies in [0, 100], and a violation  *)
(* with no severity field weighs as LOW.                                   *)
(***************************************************************************)
C22_ScoreFollowsFormula ==
    (computed.op = "get_compliance_score" /\ computed.violations # <<>>) =>
        LET n == Len(computed.violations)
            \* n times the stated value, in hundredths
            stated == 10000 * n - 1000 * StatedWeightSum(computed.violations)
            floored == IF stated < 0 THEN 0 ELSE stated
        IN  /\ 2 * Abs(computed.result * n - floored) <= n
            /\ computed.result >= 0
            /\ computed.result <= 10000

\* a list with a violation that has no severity field, whose stated value
\* has more than two decimals
C22_Witness ==
    /\ computed.op = "get_compliance_score"
    /\ \E i \in 1..Len(computed.violations) : "severity" \notin DOMAIN computed.violations[i]
    /\ (1000 * StatedWeightSum(computed.violations)) % Len(computed.violations) # 0

(***************************************************************************)
(* C23: analyze_risk([], []) returns ('LOW', []), and                      *)
(* analyze_risk(['AdministratorAccess'], []) returns                       *)
(* ('CRITICAL', ['Has AdministratorAccess policy']).                       *)
(***************************************************************************)
C23_AnalyzeRiskBaseCases ==
    (Analyzed /\ computed.inline_policies = <<>>) =>
        /\ computed.attached_policies = <<>> =>
              computed.risk_level = "LOW" /\ computed.risk_reasons = <<>>
        /\ computed.attached_policies = <<"AdministratorAccess">> =>
              /\ computed.risk_level = "CRITICAL"
              /\ computed.risk_reasons = <<"Has AdministratorAccess policy">>

C23_Witness ==
    /\ Analyzed
    /\ computed.attached_policies = <<"AdministratorAccess">>
    /\ computed.inline_policies = <<>>
    /\ computed.risk_level = "CRITICAL"

(***************************************************************************)
(* C24: an entity with more than 10 policies in total, no risky attached   *)
(* policy and no inline policy is MEDIUM with exactly one reason, the      *)
(* excessive-policies one.                                                 *)
(***************************************************************************)
C24_ExcessiveAloneIsMedium ==
    ( /\ Analyzed
      /\ TotalPolicies > 10
      /\ computed.inline_policies = <<>>
      /\ \A i \in 1..Len(computed.attached_policies) : ~Risky(computed.attached_policies[i]) )
    => /\ computed.risk_level = "MEDIUM"
       /\ computed.risk_reasons =
              <<"Has " \o ToString(TotalPolicies) \o " policies (excessive)">>

C24_Witness ==
    /\ Analyzed
    /\ Len(computed.attached_policies) = 11
    /\ computed.inline_policies = <<>>
    /\ \A i \in 1..11 : ~Risky(computed.attached_policies[i])
    /\ computed.risk_reasons = <<"Has 11 policies (excessive)">>

(***************************************************************************)
(* C25: analyze_risk returns CRITICAL exactly when 'AdministratorAccess'   *)
(* or 'IAMFullAccess' is among the attached policies, whatever the         *)
(* reasons; otherwise HIGH with three or more reasons, MEDIUM with one or  *)
(* two, LOW with none.                                                     *)
(***************************************************************************)
C25_RiskLevelLadder ==
    Analyzed =>
        LET admin == \E i \in 1..Len(computed.attached_policies) :
                        computed.attached_policies[i] \in {"AdministratorAccess", "IAMFullAccess"}
            n == Len(computed.risk_reasons)
        IN  /\ computed.risk_level = "CRITICAL" <=> admin
            /\ ~admin =>
                  /\ n >= 3 => computed.risk_level = "HIGH"
                  /\ n \in {1, 2} => computed.risk_level = "MEDIUM"
                  /\ n = 0 => computed.risk_level = "LOW"

\* CRITICAL with a single reason, which the count alone would make MEDIUM
C25_Witness ==
    /\ Analyzed
    /\ computed.risk_level = "CRITICAL"
    /\ Len(computed.risk_reasons) = 1

(***************************************************************************)
(* C27: the reason list of analyze_risk has one reason per attached policy *)
(* that is in RISKY_POLICIES or contains 'FullAccess', one more if         *)
(* attached plus inline policies exceed 10, and one more if there is an    *)
(* inline policy; so three risky attached policies other than              *)
(* AdministratorAccess and IAMFullAccess, and nothing else, are HIGH.      *)
(***************************************************************************)
C27_OneReasonPerRiskyPolicy ==
    Analyzed =>
        LET attached == computed.attached_policies
            risky == {i \in 1..Len(attached) : Risky(attached[i])}
        IN  /\ Len(computed.risk_reasons) =
                   Cardinality(risky)
                     + (IF TotalPolicies > 10 THEN 1 ELSE 0)
                     + (IF Len(computed.inline_policies) >= 1 THEN 1 ELSE 0)
            /\ ( /\ Len(attached) = 3
                 /\ computed.inline_policies = <<>>
                 /\ \A i \in 1..3 :
                       Risky(attached[i])
                         /\ attached[i] \notin {"AdministratorAccess", "IAMFullAccess"} )
               => computed.risk_level = "HIGH"

C27_Witness ==
    /\ Analyzed
    /\ computed.attached_policies = <<"PowerUserAccess", "SecurityAudit", "AmazonS3FullAccess">>
    /\ computed.inline_policies = <<>>
    /\ computed.risk_level = "HIGH"
    /\ Len(computed.risk_reasons) = 3


(***************************************************************************)
(* Vocabulary of the concurrent-call property: what the calls of a round   *)
(* leave when they run one after another.                                  *)
(***************************************************************************)
Quiescent == \A c \in Callers : api[c].pc = "idle"

Json(config) == [kind |-> "json", config |-> config]

SerialCall(call, st) ==
    LET config == Persisted(st.file) IN
    CASE call.op = "configure" ->
            [file |-> Json(ConfiguredConfig(config, call.enabled, call.interval_hours,
                                            call.accounts)),
             jobs |-> ConfiguredJobs(call.enabled, call.interval_hours)]
      [] call.op = "stop" ->
            [file |-> Json([config EXCEPT !.enabled = FALSE]), jobs |-> {}]
      [] call.op = "start" ->
            [file |-> Json([config EXCEPT !.enabled = TRUE]),
             jobs |-> ConfiguredJobs(TRUE, config.interval_hours)]

RECURSIVE SerialRun(_, _)
SerialRun(callSeq, st) ==
    IF callSeq = <<>> THEN st ELSE SerialRun(Tail(callSeq), SerialCall(Head(callSeq), st))

C29_NoneKeepsTargetsListReplaces ==
    [][ \A enabled \in BOOLEAN, interval_hours \in Intervals,
           accounts \in {None} \cup {{l} : l \in AccountLists} :
            configure_monitoring(enabled, interval_hours, accounts) =>
                IF accounts = None
                THEN Persisted(config_file').accounts = Persisted(config_file).accounts
                ELSE {Persisted(config_file').accounts} = accounts ]_vars


(***************************************************************************)
(* C30: after scan_all_resources has completed, the rows stored for its    *)
(* scope are exactly the violations this run's checkers returned, also     *)
(* when clearing the old rows failed: no old row is stored next to the     *)
(* newly inserted ones.                                                    *)
(***************************************************************************)
C30_StoredRowsAreThisRunsViolations ==
    \A t \in Tasks : pc[t] = "done" => StoredIn(scanner[t]) = NewRows(t)

=============================================================================
